---- MODULE Spec2Model ----
(***************************************************************************)
(* Model of the BLE session logic of the SearchActions screen               *)
(* (src/app/search-actions.tsx): RSSI polling, the radio-off effect, the    *)
(* notification monitor, the two toggle handlers with their optimistic      *)
(* update, write completion and 3000 ms fallback timer, and the             *)
(* "Connection Lost" modal.                                                 *)
(*                                                                          *)
(* Text is modelled as a sequence of byte codes, so that the base64         *)
(* conversions of the wire protocol are computed, not assumed.              *)
(***************************************************************************)
EXTENDS Integers, Sequences, FiniteSets, TLC

(* ------------------------------ bounds --------------------------------- *)
MaxCommands == 2
MaxReads == 2
\* readRSSI() values range over -MaxAttenuation..0 dBm
MaxAttenuation == 110

(* ----------------------------- constants ------------------------------- *)
NULL == "null"
Actuators == {"buzzer", "led"}

SuperNearFloor == -55
NearFloor == -65
FarFloor == -80
RssiFloor == -90

\* "BUZZ_TOGGLE", "LED_TOGGLE" as UTF-8 bytes
BUZZ_TOGGLE == <<66, 85, 90, 90, 95, 84, 79, 71, 71, 76, 69>>
LED_TOGGLE == <<76, 69, 68, 95, 84, 79, 71, 71, 76, 69>>
\* "BUZZER_ON", "BUZZER_OFF", "LED_ON", "LED_OFF" as UTF-8 bytes
BUZZER_ON == <<66, 85, 90, 90, 69, 82, 95, 79, 78>>
BUZZER_OFF == <<66, 85, 90, 90, 69, 82, 95, 79, 70, 70>>
LED_ON == <<76, 69, 68, 95, 79, 78>>
LED_OFF == <<76, 69, 68, 95, 79, 70, 70>>

(* ------------------------------ base64 --------------------------------- *)
\* value of one base64 character (given as its ASCII code)
B64Value(c) ==
  IF c >= 65 /\ c <= 90 THEN c - 65
  ELSE IF c >= 97 /\ c <= 122 THEN c - 71
  ELSE IF c >= 48 /\ c <= 57 THEN c + 4
  ELSE IF c = 43 THEN 62
  ELSE 63

\* base64 character (ASCII code) of a 6-bit value
B64Char(v) ==
  IF v <= 25 THEN v + 65
  ELSE IF v <= 51 THEN v + 71
  ELSE IF v <= 61 THEN v - 4
  ELSE IF v = 62 THEN 43
  ELSE 47

\* the characters before the first '=' padding character
RECURSIVE StripPadding(_)
StripPadding(s) ==
  IF s = <<>> \/ Head(s) = 61 THEN <<>>
  ELSE <<Head(s)>> \o StripPadding(Tail(s))

RECURSIVE DecodeQuads(_)
DecodeQuads(s) ==
  IF Len(s) < 2 THEN <<>>
  ELSE LET v1 == B64Value(s[1])
           v2 == B64Value(s[2])
           b1 == v1 * 4 + (v2 \div 16)
       IN IF Len(s) = 2 THEN <<b1>>
          ELSE LET v3 == B64Value(s[3])
                   b2 == (v2 % 16) * 16 + (v3 \div 4)
               IN IF Len(s) = 3 THEN <<b1, b2>>
                  ELSE LET v4 == B64Value(s[4])
                           b3 == (v3 % 4) * 64 + v4
                       IN <<b1, b2, b3>> \o DecodeQuads(SubSeq(s, 5, Len(s)))

\* Buffer.from(value, "base64").toString("utf8"), on ASCII payloads
Base64Decode(s) == DecodeQuads(StripPadding(s))

RECURSIVE Base64Encode(_)
\* Buffer.from(command, "utf8").toString("base64"), on ASCII commands
Base64Encode(b) ==
  IF b = <<>> THEN <<>>
  ELSE LET c1 == B64Char(b[1] \div 4)
       IN IF Len(b) = 1
          THEN <<c1, B64Char((b[1] % 4) * 16), 61, 61>>
          ELSE LET c2 == B64Char((b[1] % 4) * 16 + (b[2] \div 16))
               IN IF Len(b) = 2
                  THEN <<c1, c2, B64Char((b[2] % 16) * 4), 61>>
                  ELSE <<c1, c2, B64Char((b[2] % 16) * 4 + (b[3] \div 64)),
                         B64Char(b[3] % 64)>>
                       \o Base64Encode(SubSeq(b, 4, Len(b)))

(* ---------------------------- getProximity ----------------------------- *)
\* getProximity with the boundaries on the weaker-signal side
getProximityExclusive(rssi) ==
  IF rssi = <<>> THEN ""
  ELSE IF rssi[1] > SuperNearFloor THEN "Super Near"
  ELSE IF rssi[1] > NearFloor THEN "Near"
  ELSE IF rssi[1] > FarFloor THEN "Far"
  ELSE "Super Far"

\* rssi: number | null is <<r>> | <<>>
getProximity(rssi) ==
  IF rssi = <<>> THEN ""
  ELSE IF rssi[1] >= SuperNearFloor THEN "Super Near"
  ELSE IF rssi[1] >= NearFloor THEN "Near"
  ELSE IF rssi[1] >= FarFloor THEN "Far"
  ELSE "Super Far"

(* ------------------------------- state --------------------------------- *)
VARIABLES
  connectedDevice,        \* prop: NULL or the device handle
  mounted,                \* the component instance exists
  currentRssi,            \* useState(rssi): <<>> (null) or <<r>>
  proximity,              \* rendered getProximity(currentRssi)
  disconnectModalVisible, \* useState(false)
  buzzerState, buzzerLoading, ledState, ledLoading,
  interval,               \* the setInterval of the polling effect is set
  monitor,                \* a characteristic monitor delivers callbacks
  rssiReads,              \* readRSSI() calls in flight, in issue order; each
                          \* is TRUE when a read issued after it has already
                          \* returned a number
  writes,                 \* per actuator, the handler invocations awaiting
                          \* their write, in issue order
  timers,                 \* per actuator, the armed fallbacks in arming
                          \* order; each is TRUE when it belongs to the
                          \* latest press of the actuator
  resuming,               \* per actuator, the handler invocations whose
                          \* sendToggleCommand returned without writing and
                          \* that have not resumed after their await yet;
                          \* each is TRUE when it is the latest press
  alert,                  \* message of the Alert.alert of the last step
  confirmed,              \* per actuator, the value of the last matching
                          \* notification since the last press, kept while
                          \* that press is in flight (<<>>: none)
  lostCount,              \* times the modal went from hidden to visible
  connectionLost          \* what made the modal visible in the last step
                          \* ("": it did not become visible)

vars == <<connectedDevice, mounted, currentRssi, proximity,
          disconnectModalVisible, buzzerState, buzzerLoading, ledState,
          ledLoading, interval, monitor, rssiReads, writes, timers, resuming,
          alert, confirmed,
          lostCount, connectionLost>>

Device == "dev"
\* the rssi prop the screen is opened with
InitialRssi == {<<-50>>}
\* values a readRSSI() of the session may deliver
RssiSamples == {-50, RssiFloor - 1}
\* outcome of readRSSI(): a thrown error, or updatedDevice.rssi
ReadOutcomes ==
  {[ok |-> FALSE, rssi |-> <<>>], [ok |-> TRUE, rssi |-> <<>>]}
    \cup {[ok |-> TRUE, rssi |-> <<r>>] : r \in RssiSamples}

\* what the monitor callback receives: (error, characteristic?.value);
\* value is <<>> when absent, else <<text>> with the base64 text
NotifyInputs ==
  {[error |-> TRUE, value |-> <<>>], [error |-> FALSE, value |-> <<>>],
   [error |-> FALSE, value |-> <<<<>>>>]}
    \cup {[error |-> FALSE, value |-> <<Base64Encode(t)>>] :
            t \in {BUZZER_ON, BUZZER_OFF, LED_ON, LED_OFF,
                   <<98, 117, 122, 122, 101, 114, 95, 111, 110>>,
                   <<76, 69, 68, 95, 79, 78, 10>>}}

NoAlert == ""
NotConnectedAlert == "Device not connected"
FailedAlert(a) ==
  IF a = "buzzer" THEN "Failed to control buzzer" ELSE "Failed to control LED"

State(a) == IF a = "buzzer" THEN buzzerState ELSE ledState
Loading(a) == IF a = "buzzer" THEN buzzerLoading ELSE ledLoading
Command(a) == IF a = "buzzer" THEN BUZZ_TOGGLE ELSE LED_TOGGLE
RemoveAt(s, i) == SubSeq(s, 1, i - 1) \o SubSeq(s, i + 1, Len(s))

\* a React state setter acts only on a mounted component
SetState(a, v) ==
  /\ buzzerState' = IF mounted /\ a = "buzzer" THEN v ELSE buzzerState
  /\ ledState' = IF mounted /\ a = "led" THEN v ELSE ledState
SetLoading(a, v) ==
  /\ buzzerLoading' = IF mounted /\ a = "buzzer" THEN v ELSE buzzerLoading
  /\ ledLoading' = IF mounted /\ a = "led" THEN v ELSE ledLoading
SetDisconnectModalVisible(v, trigger) ==
  /\ disconnectModalVisible' = IF mounted THEN v ELSE disconnectModalVisible
  /\ lostCount' = IF mounted /\ v /\ ~disconnectModalVisible
                  THEN lostCount + 1 ELSE lostCount
  /\ connectionLost' = IF mounted /\ v /\ ~disconnectModalVisible
                       THEN trigger ELSE ""
SetCurrentRssi(r) ==
  /\ currentRssi' = IF mounted THEN r ELSE currentRssi
  /\ proximity' = getProximity(currentRssi')

\* Init where a failed setup of the subscription shows the modal
InitSetupFailureFatal ==
  /\ connectedDevice \in {NULL, Device}
  /\ mounted = TRUE
  /\ currentRssi \in InitialRssi
  /\ proximity = getProximity(currentRssi)
  /\ buzzerState = FALSE /\ buzzerLoading = FALSE
  /\ ledState = FALSE /\ ledLoading = FALSE
  /\ interval = (connectedDevice # NULL)
  /\ monitor \in (IF connectedDevice # NULL THEN BOOLEAN ELSE {FALSE})
  /\ disconnectModalVisible = (connectedDevice # NULL /\ ~monitor)
  /\ rssiReads = <<>>
  /\ writes = [a \in Actuators |-> <<>>]
  /\ timers = [a \in Actuators |-> <<>>]
  /\ resuming = [a \in Actuators |-> <<>>]
  /\ alert = NoAlert
  /\ confirmed = [a \in Actuators |-> <<>>]
  /\ lostCount = 0
  /\ connectionLost = ""

Init ==
  /\ connectedDevice \in {NULL, Device}
  /\ mounted = TRUE
  /\ currentRssi \in InitialRssi
  /\ proximity = getProximity(currentRssi)
  /\ disconnectModalVisible = FALSE
  /\ buzzerState = FALSE /\ buzzerLoading = FALSE
  /\ ledState = FALSE /\ ledLoading = FALSE
  /\ interval = (connectedDevice # NULL)
  /\ monitor \in (IF connectedDevice # NULL THEN BOOLEAN ELSE {FALSE})
  /\ rssiReads = <<>>
  /\ writes = [a \in Actuators |-> <<>>]
  /\ timers = [a \in Actuators |-> <<>>]
  /\ resuming = [a \in Actuators |-> <<>>]
  /\ alert = NoAlert
  /\ confirmed = [a \in Actuators |-> <<>>]
  /\ lostCount = 0
  /\ connectionLost = ""

(* --------------------------- RSSI polling ------------------------------ *)
\* one tick of setInterval(..., 1000): issues connectedDevice.readRSSI()
RssiTick ==
  /\ interval
  /\ Len(rssiReads) < MaxReads
  /\ rssiReads' = Append(rssiReads, FALSE)
  /\ alert' = NoAlert
  /\ UNCHANGED <<connectedDevice, mounted, currentRssi, proximity,
                 disconnectModalVisible, buzzerState, buzzerLoading,
                 ledState, ledLoading, interval, monitor, writes, timers, resuming, confirmed,
                 lostCount>>
  /\ connectionLost' = ""

\* RssiResolve where a read at or above the floor hides the modal again
RssiResolveRecovers(k, out) ==
  /\ k \in 1..Len(rssiReads)
  /\ rssiReads' =
       IF out.ok /\ out.rssi # <<>>
       THEN [j \in 1..(k - 1) |-> TRUE]
              \o SubSeq(rssiReads, k + 1, Len(rssiReads))
       ELSE RemoveAt(rssiReads, k)
  /\ IF out.ok
     THEN /\ IF out.rssi # <<>>
             THEN SetCurrentRssi(out.rssi)
             ELSE UNCHANGED <<currentRssi, proximity>>
          /\ SetDisconnectModalVisible(
               out.rssi = <<>> \/ out.rssi[1] < RssiFloor, "rssi")
     ELSE /\ SetDisconnectModalVisible(TRUE, "rssi")
          /\ UNCHANGED <<currentRssi, proximity>>
  /\ alert' = NoAlert
  /\ UNCHANGED <<connectedDevice, mounted, buzzerState, buzzerLoading,
                 ledState, ledLoading, interval, monitor, writes, timers, resuming,
                 confirmed>>

\* RssiResolve that treats a value equal to the floor as below it
RssiResolveInclusive(k, out) ==
  /\ k \in 1..Len(rssiReads)
  /\ rssiReads' =
       IF out.ok /\ out.rssi # <<>>
       THEN [j \in 1..(k - 1) |-> TRUE]
              \o SubSeq(rssiReads, k + 1, Len(rssiReads))
       ELSE RemoveAt(rssiReads, k)
  /\ IF out.ok
     THEN /\ IF out.rssi # <<>>
             THEN SetCurrentRssi(out.rssi)
             ELSE UNCHANGED <<currentRssi, proximity>>
          /\ IF out.rssi = <<>> \/ out.rssi[1] <= RssiFloor
             THEN SetDisconnectModalVisible(TRUE, "rssi")
             ELSE /\ UNCHANGED <<disconnectModalVisible, lostCount>>
                  /\ connectionLost' = ""
     ELSE /\ SetDisconnectModalVisible(TRUE, "rssi")
          /\ UNCHANGED <<currentRssi, proximity>>
  /\ alert' = NoAlert
  /\ UNCHANGED <<connectedDevice, mounted, buzzerState, buzzerLoading,
                 ledState, ledLoading, interval, monitor, writes, timers, resuming, confirmed>>

\* the continuation of the tick after `await connectedDevice.readRSSI()`,
\* for the k-th read in flight
RssiResolve(k, out) ==
  /\ k \in 1..Len(rssiReads)
  /\ rssiReads' =
       IF out.ok /\ out.rssi # <<>>
       THEN [j \in 1..(k - 1) |-> TRUE]
              \o SubSeq(rssiReads, k + 1, Len(rssiReads))
       ELSE RemoveAt(rssiReads, k)
  /\ IF out.ok
     THEN /\ IF out.rssi # <<>>
             THEN SetCurrentRssi(out.rssi)
             ELSE UNCHANGED <<currentRssi, proximity>>
          /\ IF out.rssi = <<>> \/ out.rssi[1] < RssiFloor
             THEN SetDisconnectModalVisible(TRUE, "rssi")
             ELSE /\ UNCHANGED <<disconnectModalVisible, lostCount>>
                  /\ connectionLost' = ""
     ELSE /\ SetDisconnectModalVisible(TRUE, "rssi")
          /\ UNCHANGED <<currentRssi, proximity>>
  /\ alert' = NoAlert
  /\ UNCHANGED <<connectedDevice, mounted, buzzerState, buzzerLoading,
                 ledState, ledLoading, interval, monitor, writes, timers, resuming, confirmed>>

\* BluetoothOffSignal that leaves the decision to a read in flight
BluetoothOffSignalDeferred ==
  /\ mounted
  /\ IF rssiReads = <<>>
     THEN SetDisconnectModalVisible(TRUE, "radio")
     ELSE UNCHANGED <<disconnectModalVisible, lostCount>>
          /\ connectionLost' = ""
  /\ alert' = NoAlert
  /\ UNCHANGED <<connectedDevice, mounted, currentRssi, proximity,
                 buzzerState, buzzerLoading, ledState, ledLoading, interval,
                 monitor, rssiReads, writes, timers, resuming, confirmed>>

\* the bluetoothOff prop becomes true and its effect runs (the prop turning
\* false again runs the effect without any state change)
BluetoothOffSignal ==
  /\ mounted
  /\ SetDisconnectModalVisible(TRUE, "radio")
  /\ alert' = NoAlert
  /\ UNCHANGED <<connectedDevice, mounted, currentRssi, proximity,
                 buzzerState, buzzerLoading, ledState, ledLoading, interval,
                 monitor, rssiReads, writes, timers, resuming, confirmed>>

(* ------------------------------ toggles -------------------------------- *)
\* sendToggleCommand that writes the command text without encoding it
sendToggleCommandPlain(command) ==
  IF connectedDevice = NULL
  THEN [alert |-> NotConnectedAlert, wrote |-> FALSE, wire |-> <<>>]
  ELSE [alert |-> NoAlert, wrote |-> TRUE, wire |-> command]

\* sendToggleCommand up to its await: with no device it alerts and returns,
\* else it encodes the command and calls
\* writeCharacteristicWithResponseForService
sendToggleCommand(command) ==
  IF connectedDevice = NULL
  THEN [alert |-> NotConnectedAlert, wrote |-> FALSE, wire |-> <<>>]
  ELSE [alert |-> NoAlert, wrote |-> TRUE, wire |-> Base64Encode(command)]

InFlight == Len(writes["buzzer"]) + Len(writes["led"])
             + Len(timers["buzzer"]) + Len(timers["led"])
             + Len(resuming["buzzer"]) + Len(resuming["led"])

\* the writes / fallbacks of earlier presses, once a new press is made
Earlier(ws) == [j \in 1..Len(ws) |-> [ws[j] EXCEPT !.latest = FALSE]]
NotLatest(ts) == [j \in 1..Len(ts) |-> FALSE]

\* confirmed is kept only while the write or the fallback of the latest
\* press of the actuator is in flight (it is empty while that press has
\* not resumed after its await: the press emptied it)
Keep(c, w, t) ==
  [a \in Actuators |->
     IF \/ \E j \in 1..Len(w[a]) : w[a][j].latest
        \/ \E j \in 1..Len(t[a]) : t[a][j]
     THEN c[a] ELSE <<>>]

\* handleBuzzerPress / handleLightPress from the call to the suspension at
\* `await sendToggleCommand(...)`: the loading flag is set, the state is
\* flipped and sendToggleCommand runs up to its own await or return.  The
\* handler tests neither the loading flag nor anything else before it acts.
\* When sendToggleCommand returned without writing, the handler is still
\* suspended at the await and resumes in a later step.
handlePress(a) ==
  /\ LET newState == ~State(a)
         sent == sendToggleCommand(Command(a))
     IN /\ SetLoading(a, TRUE)
        /\ SetState(a, newState)
        /\ alert' = sent.alert
        /\ IF sent.wrote
           THEN /\ writes' = [writes EXCEPT ![a] = Append(Earlier(@),
                      [newState |-> newState, before |-> State(a),
                       wire |-> sent.wire, latest |-> TRUE])]
                /\ timers' = [timers EXCEPT ![a] = NotLatest(@)]
                /\ resuming' = [resuming EXCEPT ![a] = NotLatest(@)]
           ELSE /\ writes' = [writes EXCEPT ![a] = Earlier(@)]
                /\ timers' = [timers EXCEPT ![a] = NotLatest(@)]
                /\ resuming' = [resuming EXCEPT ![a] = Append(NotLatest(@), TRUE)]
  /\ confirmed' = [confirmed EXCEPT ![a] = <<>>]
  /\ UNCHANGED <<connectedDevice, mounted, currentRssi, proximity,
                 disconnectModalVisible, interval, monitor, rssiReads,
                 lostCount>>
  /\ connectionLost' = ""

handleBuzzerPress == handlePress("buzzer")
handleLightPress == handlePress("led")

\* no handler is suspended at an await that has nothing to wait for: the
\* continuations queued in the current turn of the event loop have run
TurnEnded == \A a \in Actuators : resuming[a] = <<>>

\* a tap on the buzzer / light button: the TouchableOpacity is rendered
\* while the screen is mounted, is disabled while the loading flag of its
\* actuator is set, and its onPress is the handler.  (The number of
\* commands in flight is bounded by MaxCommands.)
ButtonPress(a) ==
  /\ mounted
  /\ ~Loading(a)
  /\ InFlight < MaxCommands
  /\ IF a = "buzzer" THEN handleBuzzerPress ELSE handleLightPress

\* the handler resumes after `await sendToggleCommand(...)` when that call
\* returned without writing (one microtask after the handler returned to
\* its caller): it arms setTimeout(..., 3000)
AwaitResumed(a) ==
  /\ resuming[a] # <<>>
  /\ resuming' = [resuming EXCEPT ![a] = Tail(@)]
  /\ timers' = [timers EXCEPT ![a] = Append(@, Head(resuming[a]))]
  /\ alert' = NoAlert
  /\ UNCHANGED <<connectedDevice, mounted, currentRssi, proximity,
                 disconnectModalVisible, buzzerState, buzzerLoading,
                 ledState, ledLoading, interval, monitor, rssiReads,
                 writes, confirmed, lostCount>>
  /\ connectionLost' = ""

\* the write resolved and the handler resumed after its await: it arms
\* setTimeout(..., 3000).  The settling of the write changes nothing the
\* component holds until the handler resumes, so the two are one step; for
\* the handler the write is in flight until then.
WriteResolved(a, i) ==
  /\ i \in 1..Len(writes[a])
  /\ writes' = [writes EXCEPT ![a] = RemoveAt(@, i)]
  /\ timers' = [timers EXCEPT ![a] = Append(@, writes[a][i].latest)]
  /\ alert' = NoAlert
  /\ UNCHANGED <<connectedDevice, mounted, currentRssi, proximity,
                 disconnectModalVisible, buzzerState, buzzerLoading,
                 ledState, ledLoading, interval, monitor, rssiReads,
                 resuming, confirmed, lostCount>>
  /\ connectionLost' = ""

\* WriteRejected with a catch block that does not reset the state
WriteRejectedNoRevert(a, i) ==
  /\ i \in 1..Len(writes[a])
  /\ writes' = [writes EXCEPT ![a] = RemoveAt(@, i)]
  /\ SetLoading(a, FALSE)
  /\ UNCHANGED <<buzzerState, ledState>>
  /\ alert' = FailedAlert(a)
  /\ confirmed' = Keep(confirmed, writes', timers)
  /\ UNCHANGED <<connectedDevice, mounted, currentRssi, proximity,
                 disconnectModalVisible, interval, monitor, rssiReads,
                 timers, resuming, lostCount>>
  /\ connectionLost' = ""

\* WriteRejected that also treats the failed write as a lost connection
WriteRejectedDisconnects(a, i) ==
  /\ i \in 1..Len(writes[a])
  /\ writes' = [writes EXCEPT ![a] = RemoveAt(@, i)]
  /\ SetLoading(a, FALSE)
  /\ SetState(a, ~writes[a][i].newState)
  /\ SetDisconnectModalVisible(TRUE, "rssi")
  /\ alert' = FailedAlert(a)
  /\ confirmed' = Keep(confirmed, writes', timers)
  /\ UNCHANGED <<connectedDevice, mounted, currentRssi, proximity,
                 interval, monitor, rssiReads, timers, resuming>>

\* the write rejected: the catch block of the handler
WriteRejected(a, i) ==
  /\ i \in 1..Len(writes[a])
  /\ writes' = [writes EXCEPT ![a] = RemoveAt(@, i)]
  /\ SetLoading(a, FALSE)
  /\ SetState(a, ~writes[a][i].newState)
  /\ alert' = FailedAlert(a)
  /\ confirmed' = Keep(confirmed, writes', timers)
  /\ UNCHANGED <<connectedDevice, mounted, currentRssi, proximity,
                 disconnectModalVisible, interval, monitor, rssiReads,
                 timers, resuming, lostCount>>
  /\ connectionLost' = ""

\* FallbackTimer that also sets the state back to off
FallbackTimerResets(a) ==
  /\ timers[a] # <<>>
  /\ timers' = [timers EXCEPT ![a] = Tail(@)]
  /\ SetLoading(a, FALSE)
  /\ SetState(a, FALSE)
  /\ confirmed' = Keep(confirmed, writes, timers')
  /\ alert' = NoAlert
  /\ UNCHANGED <<connectedDevice, mounted, currentRssi, proximity,
                 disconnectModalVisible, interval, monitor, rssiReads,
                 writes, resuming, lostCount>>
  /\ connectionLost' = ""

\* the fallback callback () => setBuzzerLoading(false) / setLedLoading(false)
\* of the fallback of the actuator that was armed first (all have the same
\* delay)
FallbackTimer(a) ==
  /\ timers[a] # <<>>
  /\ timers' = [timers EXCEPT ![a] = Tail(@)]
  /\ SetLoading(a, FALSE)
  /\ confirmed' = Keep(confirmed, writes, timers')
  /\ alert' = NoAlert
  /\ UNCHANGED <<connectedDevice, mounted, currentRssi, proximity,
                 disconnectModalVisible, buzzerState, ledState, interval,
                 monitor, rssiReads, writes, resuming, lostCount>>
  /\ connectionLost' = ""

(* --------------------------- notifications ----------------------------- *)
IsPrefix(t, response) ==
  Len(response) >= Len(t) /\ SubSeq(response, 1, Len(t)) = t

\* Matched that accepts any response starting with a token
MatchedPrefix(response) ==
  IF IsPrefix(BUZZER_ON, response) THEN <<"buzzer", TRUE>>
  ELSE IF IsPrefix(BUZZER_OFF, response) THEN <<"buzzer", FALSE>>
  ELSE IF IsPrefix(LED_ON, response) THEN <<"led", TRUE>>
  ELSE IF IsPrefix(LED_OFF, response) THEN <<"led", FALSE>>
  ELSE <<>>

\* the actuator and value a decoded response names, <<>> if it names none
Matched(response) ==
  IF response = BUZZER_ON THEN <<"buzzer", TRUE>>
  ELSE IF response = BUZZER_OFF THEN <<"buzzer", FALSE>>
  ELSE IF response = LED_ON THEN <<"led", TRUE>>
  ELSE IF response = LED_OFF THEN <<"led", FALSE>>
  ELSE <<>>

\* what the callback does with its arguments: <<>> when it returns without
\* a state change, else the actuator and value it sets
Handled(in) ==
  IF in.error THEN <<>>
  ELSE IF in.value = <<>> \/ in.value[1] = <<>> THEN <<>>
  ELSE Matched(Base64Decode(in.value[1]))

\* Handled, tabulated over the callback arguments that are delivered
Responses == [in \in NotifyInputs |-> Handled(in)]

\* MonitorCallback that sets the state and leaves the loading flag alone
MonitorCallbackKeepsLoading(in) ==
  /\ monitor
  /\ alert' = NoAlert
  /\ UNCHANGED <<connectedDevice, mounted, currentRssi, proximity,
                 disconnectModalVisible, interval, monitor, rssiReads,
                 writes, timers, resuming, lostCount>>
  /\ connectionLost' = ""
  /\ LET m == Responses[in]
     IN IF m = <<>>
        THEN UNCHANGED <<buzzerState, buzzerLoading, ledState, ledLoading,
                         confirmed>>
        ELSE /\ SetState(m[1], m[2])
             /\ UNCHANGED <<buzzerLoading, ledLoading>>
             /\ confirmed' = IF mounted
                             THEN Keep([confirmed EXCEPT ![m[1]] = <<m[2]>>],
                                       writes, timers)
                             ELSE confirmed

\* the callback passed to monitorCharacteristicForService
MonitorCallback(in) ==
  /\ monitor
  /\ alert' = NoAlert
  /\ UNCHANGED <<connectedDevice, mounted, currentRssi, proximity,
                 disconnectModalVisible, interval, monitor, rssiReads,
                 writes, timers, resuming, lostCount>>
  /\ connectionLost' = ""
  /\ LET m == Responses[in]
     IN IF m = <<>>
        THEN UNCHANGED <<buzzerState, buzzerLoading, ledState, ledLoading,
                         confirmed>>
        ELSE /\ SetState(m[1], m[2])
             /\ SetLoading(m[1], FALSE)
             /\ confirmed' = IF mounted
                             THEN Keep([confirmed EXCEPT ![m[1]] = <<m[2]>>],
                                       writes, timers)
                             ELSE confirmed

(* ------------------------ lifecycle of the screen ---------------------- *)
\* the cleanup of the polling effect, clearInterval(interval): whether the
\* timer runs afterwards, given whether it ran before
clearInterval(running) == FALSE

\* the parent's onBack: the screen is left, the component unmounts and the
\* cleanup of the polling effect runs
onBack ==
  /\ mounted' = FALSE
  /\ interval' = clearInterval(interval)

\* handleDisconnectModalClose that stays on the screen (no onBack)
handleDisconnectModalCloseStays ==
  /\ mounted
  /\ disconnectModalVisible
  /\ disconnectModalVisible' = FALSE
  /\ buzzerState' = FALSE
  /\ ledState' = FALSE
  /\ alert' = NoAlert
  /\ UNCHANGED <<connectedDevice, mounted, interval, currentRssi, proximity,
                 buzzerLoading, ledLoading, monitor, rssiReads, writes,
                 timers, resuming, confirmed, lostCount>>
  /\ connectionLost' = ""

handleDisconnectModalClose ==
  /\ mounted
  /\ disconnectModalVisible
  /\ disconnectModalVisible' = FALSE
  /\ buzzerState' = FALSE
  /\ ledState' = FALSE
  /\ onBack
  /\ alert' = NoAlert
  /\ UNCHANGED <<connectedDevice, currentRssi, proximity, buzzerLoading,
                 ledLoading, monitor, rssiReads, writes, timers, resuming, confirmed,
                 lostCount>>
  /\ connectionLost' = ""

\* the connectedDevice prop is cleared: the cleanup of the polling effect
\* runs (clearInterval) and both effects return at `if (!connectedDevice)`.
\* The notification effect has no cleanup.
ConnectedDeviceCleared ==
  /\ mounted
  /\ connectedDevice # NULL
  /\ connectedDevice' = NULL
  /\ interval' = clearInterval(interval)
  /\ alert' = NoAlert
  /\ UNCHANGED <<mounted, currentRssi, proximity, disconnectModalVisible,
                 buzzerState, buzzerLoading, ledState, ledLoading, monitor,
                 rssiReads, writes, timers, resuming, confirmed, lostCount>>
  /\ connectionLost' = ""

\* Timer callbacks, taps, notifications and effects each run in a turn of
\* their own, which starts only when the continuations queued in the turn
\* before have run; the continuation of a promise settled earlier in the
\* turn of a tap runs before or after the handler of the tap resumes.
Next ==
  \/ TurnEnded /\ RssiTick
  \/ \E k \in 1..MaxReads, out \in ReadOutcomes : RssiResolve(k, out)
  \/ TurnEnded /\ BluetoothOffSignal
  \/ TurnEnded /\ \E a \in Actuators : ButtonPress(a)
  \/ \E a \in Actuators : AwaitResumed(a)
  \/ \E a \in Actuators, i \in 1..MaxCommands : WriteResolved(a, i)
  \/ \E a \in Actuators, i \in 1..MaxCommands : WriteRejected(a, i)
  \/ TurnEnded /\ \E a \in Actuators : FallbackTimer(a)
  \/ TurnEnded /\ \E in \in NotifyInputs : MonitorCallback(in)
  \/ TurnEnded /\ handleDisconnectModalClose
  \/ TurnEnded /\ ConnectedDeviceCleared

Spec == Init /\ [][Next]_vars

TypeOK ==
  /\ connectedDevice \in {NULL, Device}
  /\ mounted \in BOOLEAN /\ interval \in BOOLEAN /\ monitor \in BOOLEAN
  /\ buzzerState \in BOOLEAN /\ buzzerLoading \in BOOLEAN
  /\ ledState \in BOOLEAN /\ ledLoading \in BOOLEAN
  /\ Len(rssiReads) <= MaxReads

\* a handler suspended at an await that has nothing to wait for resumes,
\* and the fallbacks armed with setTimeout(..., 3000) fire: a timer that is
\* due runs in a turn of its own however often the turns of taps come in
\* between.  Nothing makes a write settle or a notification arrive.
SpecLive ==
  Spec /\ \A a \in Actuators :
            WF_vars(AwaitResumed(a)) /\ SF_vars(TurnEnded /\ FallbackTimer(a))

(* ------------------- getProximity over the RSSI range ------------------ *)
\* the screen is opened with any rssi prop of the range, or with none
InitProximity ==
  /\ connectedDevice = Device
  /\ mounted = TRUE
  /\ currentRssi \in {<<>>} \cup {<<r>> : r \in (0 - MaxAttenuation)..0}
  /\ proximity = getProximity(currentRssi)
  /\ disconnectModalVisible = FALSE
  /\ buzzerState = FALSE /\ buzzerLoading = FALSE
  /\ ledState = FALSE /\ ledLoading = FALSE
  /\ interval = TRUE
  /\ monitor = TRUE
  /\ rssiReads = <<>>
  /\ writes = [a \in Actuators |-> <<>>]
  /\ timers = [a \in Actuators |-> <<>>]
  /\ resuming = [a \in Actuators |-> <<>>]
  /\ alert = NoAlert
  /\ confirmed = [a \in Actuators |-> <<>>]
  /\ lostCount = 0
  /\ connectionLost = ""

\* polling where readRSSI() returns any value of the range
NextProximity ==
  \/ RssiTick
  \/ \E k \in 1..MaxReads, r \in (0 - MaxAttenuation)..0 :
       RssiResolve(k, [ok |-> TRUE, rssi |-> <<r>>])

SpecProximity == InitProximity /\ [][NextProximity]_vars

(* ------------- connection health over the RSSI range ------------------- *)
\* values of updatedDevice.rssi: the ends of the range, a strong signal,
\* the floor and its two neighbours
HealthSamples ==
  {0, -50, RssiFloor + 1, RssiFloor, RssiFloor - 1, 0 - MaxAttenuation}
\* outcome of readRSSI() with these values
HealthOutcomes ==
  {[ok |-> FALSE, rssi |-> <<>>], [ok |-> TRUE, rssi |-> <<>>]}
    \cup {[ok |-> TRUE, rssi |-> <<r>>] : r \in HealthSamples}

\* polling, the radio-off signal and the lifecycle of the screen, without
\* the toggles
NextHealth ==
  \/ RssiTick
  \/ \E k \in 1..MaxReads, out \in HealthOutcomes : RssiResolve(k, out)
  \/ BluetoothOffSignal
  \/ handleDisconnectModalClose
  \/ ConnectedDeviceCleared

SpecHealth == Init /\ [][NextHealth]_vars

(* ------------------------------ claims --------------------------------- *)

\* C1: a handler called while the loading flag of its actuator is set
\* issues no write and does not flip the state, and at most one command of
\* an actuator is outstanding at any time: no two writes of one actuator
\* are in flight together.
C1_NoToggleWhilePending ==
  /\ [][\A a \in Actuators :
          (Loading(a) /\ handlePress(a)) =>
            /\ writes'[a] = writes[a]
            /\ State(a)' = State(a)]_vars
  /\ [](\A a \in Actuators : Len(writes[a]) <= 1)

\* C2: when the write of a toggle is rejected, the loading flag is cleared,
\* the state is set to the value it had just before that press, one alert
\* is shown and no fallback timer is armed.
C2_WriteFailureReverts ==
  [][\A a \in Actuators : \A i \in 1..MaxCommands :
       (mounted /\ WriteRejected(a, i)) =>
         /\ ~Loading(a)'
         /\ State(a)' = writes[a][i].before
         /\ alert' = FailedAlert(a)
         /\ timers' = timers]_vars

\* the LED write was just rejected: one alert, not loading, state back to off
C2_Witness ==
  /\ mounted
  /\ alert = FailedAlert("led")
  /\ ~ledLoading /\ ~ledState
  /\ timers["led"] = <<>>

\* C3: when a matching notification was delivered after the latest press of
\* an actuator and the fallback timer of that press then fires, the state
\* after the firing is the notified value and the loading flag is clear.
C3_NotificationWins ==
  [][\A a \in Actuators :
       (/\ mounted
        /\ confirmed[a] # <<>>
        /\ timers[a] # <<>> /\ Head(timers[a])
        /\ FallbackTimer(a)) =>
         /\ State(a)' = confirmed[a][1]
         /\ ~Loading(a)']_vars

\* C4: the modal becomes visible at most once, and a read that fails, is
\* absent or is below -90 leaves it visible with exactly one such event.
C4_ConnectionLostOnce ==
  /\ [](lostCount <= 1)
  /\ [][\A k \in 1..MaxReads : \A out \in ReadOutcomes :
          (/\ mounted
           /\ (~out.ok \/ out.rssi = <<>> \/ out.rssi[1] < -90)
           /\ RssiResolve(k, out)) =>
            (disconnectModalVisible' /\ lostCount' = 1)]_vars

\* a read below the floor made the modal visible, the user acknowledged it,
\* and it was the only such event
C4_Witness ==
  /\ ~mounted /\ ~disconnectModalVisible
  /\ currentRssi = <<-91>>
  /\ lostCount = 1

\* C5: while the screen stays mounted, no step hides the modal again.
C5_NoRecovery ==
  [][(disconnectModalVisible /\ mounted') => disconnectModalVisible']_vars

\* the modal is visible, the last value applied is below the floor, and a
\* read that returns -50 is about to resolve
C5_Witness ==
  /\ mounted /\ disconnectModalVisible
  /\ currentRssi = <<-91>>
  /\ ENABLED RssiResolve(1, [ok |-> TRUE, rssi |-> <<-50>>])

\* C6: for every RSSI value r, the proximity label shown for r is one of the
\* four labels: "Super Near" for r >= -55, "Near" for -65 <= r < -55, "Far"
\* for -80 <= r < -65, "Super Far" for r < -80.
C6_ProximityLabel ==
  currentRssi # <<>> =>
    LET r == currentRssi[1]
    IN /\ proximity \in {"Super Near", "Near", "Far", "Super Far"}
       /\ (r >= -55) => proximity = "Super Near"
       /\ (r >= -65 /\ r < -55) => proximity = "Near"
       /\ (r >= -80 /\ r < -65) => proximity = "Far"
       /\ (r < -80) => proximity = "Super Far"

\* the boundary value -55 has been read and is labelled
C6_Witness == currentRssi = <<-55>> /\ proximity = "Super Near"

\* C7: a press while the modal is visible and the device is present issues
\* no write and changes neither the state nor the loading flag.
C7_NoToggleWhenUnhealthy ==
  [][\A a \in Actuators :
       (disconnectModalVisible /\ connectedDevice # NULL /\ handlePress(a)) =>
         /\ writes' = writes
         /\ State(a)' = State(a)
         /\ Loading(a)' = Loading(a)]_vars

\* C8: a press with no device shows one alert, issues no write, and leaves
\* the state and the loading flag as they were.
C8_NoToggleWithoutDevice ==
  [][\A a \in Actuators :
       (connectedDevice = NULL /\ handlePress(a)) =>
         /\ alert' = NotConnectedAlert
         /\ writes' = writes
         /\ State(a)' = State(a)
         /\ Loading(a)' = Loading(a)]_vars

\* C9: the radio-off signal makes the modal visible in the same step, as a
\* connectionLost of its own when it was hidden, and no read that resolves
\* afterwards hides it.
C9_RadioOffDisconnects ==
  /\ [][BluetoothOffSignal =>
          /\ disconnectModalVisible'
          /\ (~disconnectModalVisible => connectionLost' = "radio")]_vars
  /\ [][\A k \in 1..MaxReads : \A out \in ReadOutcomes :
          (mounted /\ disconnectModalVisible /\ RssiResolve(k, out)) =>
            disconnectModalVisible']_vars

\* the radio-off signal has just disconnected a session with a read in flight
C9_Witness ==
  /\ mounted /\ disconnectModalVisible
  /\ connectionLost = "radio"
  /\ rssiReads # <<>>

\* the base64 texts of the four tokens
TokenPayloads ==
  {<<81, 108, 86, 97, 87, 107, 86, 83, 88, 48, 57, 79>>,
   <<81, 108, 86, 97, 87, 107, 86, 83, 88, 48, 57, 71, 82, 103, 61, 61>>,
   <<84, 69, 86, 69, 88, 48, 57, 79>>,
   <<84, 69, 86, 69, 88, 48, 57, 71, 82, 103, 61, 61>>}

\* C10: a monitor callback whose arguments are an error, no value, or a value
\* that is none of the four tokens changes no actuator state, no loading
\* flag, neither the RSSI nor the modal, and shows no alert.  (A step of
\* the callback leaves the writes, the fallbacks and the reads in flight as
\* they are, so only such steps are looked at.)
C10_OtherPayloadIgnored ==
  [][UNCHANGED <<writes, timers, rssiReads>> =>
       \A in \in NotifyInputs :
         (/\ (in.error \/ in.value = <<>> \/ in.value[1] \notin TokenPayloads)
          /\ MonitorCallback(in)) =>
           /\ UNCHANGED <<buzzerState, ledState, buzzerLoading, ledLoading,
                          currentRssi, disconnectModalVisible>>
           /\ alert' = NoAlert]_vars

\* the LED toggle is loading on a subscribed session, where a callback
\* with a text that is no token is delivered
C10_Witness ==
  /\ mounted /\ monitor
  /\ ledLoading /\ ledState
  /\ \E in \in NotifyInputs :
       /\ ~in.error /\ in.value # <<>> /\ in.value[1] \notin TokenPayloads
       /\ ENABLED MonitorCallback(in)

\* C11: a monitor callback that delivers one of the four tokens to the
\* mounted screen sets the named actuator's state to the token's value and
\* clears that actuator's loading flag, whatever they were before.  (A step
\* of the callback leaves the writes, the fallbacks and the reads in flight
\* as they are, so only such steps are looked at.)
C11_TokenSetsState ==
  [][(mounted /\ UNCHANGED <<writes, timers, rssiReads>>) =>
     \A in \in NotifyInputs :
       (mounted /\ ~in.error /\ in.value # <<>> /\ MonitorCallback(in)) =>
         /\ (in.value[1] = <<81, 108, 86, 97, 87, 107, 86, 83, 88, 48, 57, 79>>)
              => (buzzerState' /\ ~buzzerLoading')
         /\ (in.value[1] = <<81, 108, 86, 97, 87, 107, 86, 83, 88, 48, 57, 71,
                             82, 103, 61, 61>>)
              => (~buzzerState' /\ ~buzzerLoading')
         /\ (in.value[1] = <<84, 69, 86, 69, 88, 48, 57, 79>>)
              => (ledState' /\ ~ledLoading')
         /\ (in.value[1] = <<84, 69, 86, 69, 88, 48, 57, 71, 82, 103, 61, 61>>)
              => (~ledState' /\ ~ledLoading')]_vars

\* LED_ON was delivered after the latest LED press, whose write or fallback
\* is still in flight: the state is on and the loading flag is clear
C11_Witness ==
  /\ mounted
  /\ confirmed["led"] = <<TRUE>>
  /\ ledState /\ ~ledLoading

\* C12: once the session is torn down (the handle was cleared or the screen
\* was left), the polling timer and the notification subscription are
\* either both active or both cancelled.
C12_TeardownTogether ==
  (~mounted \/ connectedDevice = NULL) => (interval = monitor)

\* C13: a read that completes after the polling was stopped changes
\* neither the RSSI nor the modal and raises no connectionLost.
C13_StaleReadDiscarded ==
  [][\A k \in 1..MaxReads : \A out \in ReadOutcomes :
       (~interval /\ RssiResolve(k, out)) =>
         /\ UNCHANGED <<currentRssi, disconnectModalVisible>>
         /\ connectionLost' = ""]_vars

\* C14: while the screen stays mounted, a loading flag that is set is
\* eventually clear again, given only that armed fallback timers fire.
C14_PendingCleared ==
  \A a \in Actuators :
    (mounted /\ Loading(a)) ~> (~Loading(a) \/ ~mounted)

\* C15: on the mounted screen, once the modal is visible or the handle is
\* cleared, no further read is issued and no notification changes the
\* state or the loading flag of an actuator.
C15_TornDownWhenUnhealthy ==
  [][(mounted /\ (disconnectModalVisible \/ connectedDevice = NULL)) =>
       /\ ~RssiTick
       /\ \A in \in NotifyInputs :
            MonitorCallback(in) =>
              UNCHANGED <<buzzerState, ledState, buzzerLoading, ledLoading>>]_vars

\* C16: in a session whose subscription could not be set up, the modal is
\* hidden until a connectionLost, which only a read or the radio-off signal
\* raises; polling keeps running while the handle is present; a press still
\* issues the write of its command; and no confirmed value is recorded.
C16_SetupFailureTolerated ==
  /\ []((~monitor /\ lostCount = 0) => ~disconnectModalVisible)
  /\ []((~monitor /\ mounted /\ connectedDevice # NULL) => interval)
  /\ [][(~monitor /\ connectedDevice # NULL) =>
          /\ (connectionLost' # "") =>
                (\/ BluetoothOffSignal
                 \/ \E k \in 1..MaxReads, out \in ReadOutcomes :
                      RssiResolve(k, out))
          /\ \A a \in Actuators :
               handlePress(a) => Len(writes'[a]) = Len(writes[a]) + 1
          /\ confirmed' = confirmed]_vars

\* a session without subscription that is healthy, polls and has a buzzer
\* write in flight
C16_Witness ==
  /\ mounted /\ ~monitor /\ connectedDevice # NULL
  /\ ~disconnectModalVisible
  /\ rssiReads # <<>>
  /\ writes["buzzer"] # <<>>

\* C18: a press accepted with the handle present and the modal hidden sets
\* the loading flag, flips the state and puts the write of the actuator's
\* command ("QlVaWl9UT0dHTEU=" for the buzzer, "TEVEX1RPR0dMRQ==" for the
\* LED) in flight, arming no timer yet; and when, after the first buzzer
\* press, the write has resolved and BUZZER_ON is delivered, the buzzer is
\* on and not loading.
C18_OptimisticToggle ==
  /\ [][\A a \in Actuators :
          (connectedDevice # NULL /\ ~disconnectModalVisible /\ handlePress(a)) =>
            /\ Loading(a)'
            /\ State(a)' = ~State(a)
            /\ Len(writes'[a]) = Len(writes[a]) + 1
            /\ writes'[a][Len(writes'[a])].wire =
                 (IF a = "buzzer"
                  THEN <<81, 108, 86, 97, 87, 108, 57, 85, 84, 48, 100, 72, 84,
                         69, 85, 61>>
                  ELSE <<84, 69, 86, 69, 88, 49, 82, 80, 82, 48, 100, 77, 82,
                         81, 61, 61>>)
            /\ Len(timers'[a]) = Len(timers[a])]_vars
  /\ [][(/\ mounted /\ buzzerState /\ buzzerLoading
          /\ writes["buzzer"] = <<>> /\ timers["buzzer"] = <<TRUE>>
          /\ MonitorCallback([error |-> FALSE,
                value |-> <<<<81, 108, 86, 97, 87, 107, 86, 83, 88, 48, 57,
                              79>>>>])) =>
            (buzzerState' /\ ~buzzerLoading')]_vars

\* the buzzer was pressed, its write resolved and BUZZER_ON was delivered
\* before the fallback fired
C18_Witness ==
  /\ mounted /\ buzzerState /\ ~buzzerLoading
  /\ writes["buzzer"] = <<>> /\ timers["buzzer"] = <<TRUE>>
  /\ confirmed["buzzer"] = <<TRUE>>

\* C19: the firing of a fallback timer leaves the actuator's loading flag
\* clear on the mounted screen and changes neither actuator's state, nor
\* the other actuator's loading flag, nor the RSSI, nor the modal.
C19_FallbackOnlyClearsPending ==
  [][\A a \in Actuators :
       FallbackTimer(a) =>
         /\ mounted => ~Loading(a)'
         /\ UNCHANGED <<buzzerState, ledState, currentRssi, proximity,
                        disconnectModalVisible, lostCount>>
         /\ \A b \in Actuators \ {a} : Loading(b)' = Loading(b)]_vars

\* without subscription, the buzzer was pressed, its write resolved and its
\* fallback fired: the buzzer is still on and no longer loading
C19_Witness ==
  /\ mounted /\ ~monitor /\ connectedDevice # NULL
  /\ buzzerState /\ ~buzzerLoading
  /\ writes["buzzer"] = <<>> /\ timers["buzzer"] = <<>>

\* C20: the modal becomes visible only in a step of the radio-off signal
\* or of a read that fails, is absent or is below -90; and a read that
\* returns r >= -90 sets the RSSI to r and leaves the modal as it was.
C20_HealthTriggers ==
  /\ [][(~disconnectModalVisible /\ disconnectModalVisible') =>
          (\/ BluetoothOffSignal
           \/ \E k \in 1..MaxReads, out \in HealthOutcomes :
                /\ (~out.ok \/ out.rssi = <<>> \/ out.rssi[1] < -90)
                /\ RssiResolve(k, out))]_vars
  /\ [][(mounted /\ Len(rssiReads') < Len(rssiReads)) =>
          \A k \in 1..MaxReads : \A r \in {x \in HealthSamples : x >= -90} :
            RssiResolve(k, [ok |-> TRUE, rssi |-> <<r>>]) =>
              /\ currentRssi' = <<r>>
              /\ disconnectModalVisible' = disconnectModalVisible
              /\ connectionLost' = ""]_vars

\* a read returned exactly -90: it is shown and the session is healthy
C20_Witness ==
  /\ mounted /\ ~disconnectModalVisible /\ lostCount = 0
  /\ currentRssi = <<-90>>
  /\ proximity = "Super Far"

\* C21: a step that changes an actuator's state or loading flag is neither
\* a tick of the polling nor the completion of a read, and a step that
\* changes the RSSI or the modal is neither a press, a write completion, a
\* fallback firing nor a notification.
C21_DisjointFields ==
  /\ [][(~UNCHANGED <<buzzerState, ledState, buzzerLoading, ledLoading>>) =>
          /\ ~RssiTick
          /\ \A k \in 1..MaxReads, out \in ReadOutcomes : ~RssiResolve(k, out)]_vars
  /\ [][(~UNCHANGED <<currentRssi, disconnectModalVisible>>) =>
          /\ \A a \in Actuators :
               /\ ~handlePress(a)
               /\ ~AwaitResumed(a)
               /\ ~FallbackTimer(a)
               /\ \A i \in 1..MaxCommands :
                    ~WriteResolved(a, i) /\ ~WriteRejected(a, i)
          /\ \A in \in NotifyInputs : ~MonitorCallback(in)]_vars

\* a read below the floor completed while the buzzer write was in flight
\* and a further read is in flight
C21_Witness ==
  /\ mounted /\ buzzerState /\ buzzerLoading
  /\ writes["buzzer"] # <<>>
  /\ currentRssi = <<-91>> /\ disconnectModalVisible
  /\ rssiReads # <<>>

\* C22: the firing of a fallback timer that an earlier press of the
\* actuator armed does not clear the loading flag that a later press set.
C22_StaleTimerKeepsPending ==
  [][\A a \in Actuators :
       (/\ mounted /\ Loading(a)
        /\ timers[a] # <<>> /\ ~Head(timers[a])
        /\ FallbackTimer(a)) =>
         Loading(a)']_vars

\* C23: while the state of an actuator equals the value that the last
\* notification since its latest press confirmed, the rejection of a write
\* of that actuator leaves the state at the confirmed value.
C23_ConfirmedStateKept ==
  [][\A a \in Actuators : \A i \in 1..MaxCommands :
       (/\ mounted
        /\ confirmed[a] # <<>> /\ State(a) = confirmed[a][1]
        /\ WriteRejected(a, i)) =>
         State(a)' = confirmed[a][1]]_vars

C25_LatestReadWins ==
  [][\A k \in 1..MaxReads : \A out \in ReadOutcomes :
       (/\ mounted
        /\ k \in 1..Len(rssiReads)
        /\ rssiReads[k]
        /\ RssiResolve(k, out)) =>
         currentRssi' = currentRssi]_vars

====
